---- MODULE Spec2Model ----
(***************************************************************************)
(* State-machine model of bot.py (opswill/babelmate): the per-chat rate    *)
(* limiter, the whitelist check, the confidence-gated language routing,    *)
(* the single and dual translation calls, and the daily statistics, as     *)
(* the asyncio handler handle_message composes them.                       *)
(*                                                                         *)
(* Conventions.                                                            *)
(*  - A Python str is a sequence of one-character strings, so that lower, *)
(*    split, startswith, strip and replace are computed, not assumed.      *)
(*  - An Optional value is None (<<>>) or Some(v) (<<v>>); a float         *)
(*    confidence is an integer number of hundredths (0.7 is 70).           *)
(*  - datetime.now() is the variable now, in whole seconds; it never       *)
(*    moves backwards. The process first starts at reading 0, one minute   *)
(*    before midnight: the calendar date changes at reading MIDNIGHT.      *)
(*  - The stats files are the variable disk, one content per date;         *)
(*    stats_file is the date in the name of the file the process uses.     *)
(*  - The handler runs on one asyncio event loop: the code between two     *)
(*    awaits is one action.                                                *)
(***************************************************************************)
EXTENDS Integers, Sequences, FiniteSets, TLC

\* Optional values: None is the empty sequence, a present value v is <<v>>.
None == <<>>
Some(v) == <<v>>

\* ------------------------------------------------------------------------
\* Bounds of the model
\* ------------------------------------------------------------------------
\* Number of updates (pipeline instances of handle_message) of a behaviour.
NumMsgs == 2
\* The clock stops advancing once it has reached this many seconds.
MaxNow == 90
\* Number of times the process is stopped and started again (SpecRestart).
MaxRestarts == 1
\* Number of is_rate_limited calls of a behaviour of SpecRate.
MaxChecks == 4

\* ------------------------------------------------------------------------
\* Python string helpers
\* ------------------------------------------------------------------------
\* str.lower(), on the letters the model's strings use
LowerChar(ch) ==
    CASE ch = "C" -> "c"
      [] ch = "N" -> "n"
      [] ch = "T" -> "t"
      [] ch = "W" -> "w"
      [] ch = "V" -> "v"
      [] ch = "B" -> "b"
      [] OTHER -> ch

Lower(s) == [i \in 1..Len(s) |-> LowerChar(s[i])]

\* str.replace("_", "-")
ReplaceUnderscore(s) == [i \in 1..Len(s) |-> IF s[i] = "_" THEN "-" ELSE s[i]]

\* str.split("-")[0]: the part before the first hyphen, the whole string when
\* it holds none
SplitHyphenFirst(s) ==
    LET hy == {i \in 1..Len(s) : s[i] = "-"}
    IN  IF hy = {} THEN s
        ELSE SubSeq(s, 1, (CHOOSE i \in hy : \A j \in hy : i <= j) - 1)

\* str.strip(), the whitespace of the model's strings being " "
RECURSIVE LStrip(_)
LStrip(s) == IF s # <<>> /\ Head(s) = " " THEN LStrip(Tail(s)) ELSE s

RECURSIVE RStrip(_)
RStrip(s) ==
    IF s # <<>> /\ s[Len(s)] = " " THEN RStrip(SubSeq(s, 1, Len(s) - 1)) ELSE s

Strip(s) == RStrip(LStrip(s))

\* str.lstrip("@")
RECURSIVE LStripAt(_)
LStripAt(s) == IF s # <<>> /\ Head(s) = "@" THEN LStripAt(Tail(s)) ELSE s

\* the truth value of an Optional[str]: None and "" are false
Truthy(opt) == opt # None /\ opt[1] # <<>>

\* str.startswith(prefix)
StartsWith(s, prefix) ==
    /\ Len(prefix) <= Len(s)
    /\ SubSeq(s, 1, Len(prefix)) = prefix

\* ------------------------------------------------------------------------
\* Configuration constants (bot.py, "Configuration and Constants")
\* ------------------------------------------------------------------------
\* the literal 60 of the pruning test of is_rate_limited
WINDOW_SECONDS == 60
\* config.get("confidence_threshold", 0.7), in hundredths
CONFIDENCE_THRESHOLD == 70
\* config.get("short_text_bypass_chars", 6)
SHORT_TEXT_BYPASS_LIMIT == 6

\* Chat ids of the model
ChatIds == {1, 2}

\* The pipeline instances: one per update the transport dispatches
Procs == 1..NumMsgs

\* The two translation calls a pipeline instance can issue, named by their
\* target: "a" is translate_text(text, LANG_A_CODE), "b" is
\* translate_text(text, LANG_B_CODE)
Targets == {"a", "b"}

VARIABLES
    \* --- module-level state of bot.py
    now,                 \* datetime.now(), seconds
    message_timestamps,  \* chat_id -> list of admitted timestamps
    MAX_MESSAGES_PER_MINUTE, \* config.get("max_messages_per_minute", 60)
    LANG_A_CODE,         \* config["language_a"]["code"]
    LANG_B_CODE,         \* config["language_b"]["code"]
    ALLOWED_CHAT_IDS,    \* set(config["allowed_chat_ids"])
    ALLOWED_ADMIN_USERNAMES, \* normalized config["allowed_admin_usernames"]
    daily_stats,         \* context.bot_data["daily_stats"], a defaultdict(int)
    stats_file,          \* the path logs/stats_<date>.json, named by its date
    disk,                \* date -> the content of logs/stats_<date>.json
    write_faults,        \* whether writes to the stats file can fail
    restarts,            \* how many times the process has been started again
    hung,                \* the backend calls (instance, call) that never return
    \* --- one handle_message coroutine per update
    pc,                  \* where each coroutine is suspended
    text_len,            \* len(original_text)
    route,               \* the branch of step 4 the coroutine took
    call_state,          \* per target: not_issued, in_flight or returned
    result,              \* per target: what translate_text returned
    reply_parts,         \* the list reply_parts
    success_type,        \* the local success_type
    sent,                \* the reply msg.reply_text delivered, if any
    \* --- history, read by the properties only
    ended,               \* why each coroutine returned
    admits,              \* chat_id -> every timestamp is_rate_limited recorded
    completed,           \* the targets of an instance in completion order
    stats_at_start,      \* the counters load_daily_stats returned at startup
    checks,              \* the is_rate_limited calls made so far (SpecRate)
    \* --- the routing code applied to one detection (SpecRoute)
    route_in,            \* a backend detection and a message length
    route_out,           \* the routing decision taken for route_in
    \* --- the whitelist checks applied to one requester (SpecAuth)
    auth_in,             \* the call made: the function, the chat and the user
    auth_out,            \* the value is_chat_authorized returned
    stats_reply          \* the report stats_command replied with, if any

config_vars == <<MAX_MESSAGES_PER_MINUTE, LANG_A_CODE, LANG_B_CODE, ALLOWED_CHAT_IDS,
                 ALLOWED_ADMIN_USERNAMES, write_faults, stats_at_start, stats_file,
                 restarts, hung>>
rate_vars  == <<message_timestamps, admits>>
stats_vars == <<daily_stats, disk>>
task_vars  == <<pc, text_len, route, call_state, result, reply_parts,
                success_type, sent, ended, completed>>
route_vars == <<route_in, route_out>>
auth_vars  == <<auth_in, auth_out, stats_reply>>

vars == <<now, config_vars, rate_vars, stats_vars, task_vars, checks, route_vars,
          auth_vars>>

\* ------------------------------------------------------------------------
\* Rate Limiting System
\* ------------------------------------------------------------------------
\* timestamps = [t for t in timestamps if (now - t).total_seconds() < 60]
Pruned(chat_id) ==
    SelectSeq(message_timestamps[chat_id], LAMBDA t : now - t < WINDOW_SECONDS)

\* the value is_rate_limited(chat_id) returns
is_rate_limited(chat_id) ==
    Len(Pruned(chat_id)) >= MAX_MESSAGES_PER_MINUTE

\* a mutant of RecordTimestamp: the timestamp is appended to a list that is
\* not the one stored
RecordTimestampLost(timestamps) == timestamps

\* timestamps.append(now), on the list just stored in message_timestamps
RecordTimestamp(timestamps) == Append(timestamps, now)

\* the list message_timestamps[chat_id] holds when is_rate_limited returns
TimestampsAfterCheck(chat_id) ==
    IF is_rate_limited(chat_id)
    THEN Pruned(chat_id)
    ELSE RecordTimestamp(Pruned(chat_id))

\* ------------------------------------------------------------------------
\* Language detection result and routing (handle_message, steps 3 and 4)
\* ------------------------------------------------------------------------
\* lang.language_code.lower().replace("_", "-")
NormalizeCode(language_code) == ReplaceUnderscore(Lower(language_code))

\* what _detect returns for a backend response: None on an exception,
\* otherwise (normalized code, confidence)
detect_source_language(response) ==
    IF response = None THEN None
    ELSE Some([source_lang |-> NormalizeCode(response[1].language_code),
               confidence  |-> response[1].confidence])

\* is_short_text = len(original_text) <= SHORT_TEXT_BYPASS_LIMIT
is_short_text(length) == length <= SHORT_TEXT_BYPASS_LIMIT

\* a mutant of is_target_lang_short: the bypass also accepts a code that
\* only shares a configured language's leading subtag
is_target_lang_short_subtag(source_lang, length) ==
    /\ is_short_text(length)
    /\ SplitHyphenFirst(source_lang) \in
           {SplitHyphenFirst(Lower(LANG_A_CODE)), SplitHyphenFirst(Lower(LANG_B_CODE))}

\* is_short_text and source_lang in [LANG_A_CODE.lower(), LANG_B_CODE.lower()]
is_target_lang_short(source_lang, length) ==
    /\ is_short_text(length)
    /\ source_lang \in {Lower(LANG_A_CODE), Lower(LANG_B_CODE)}

\* confidence < CONFIDENCE_THRESHOLD and not is_target_lang_short
LowConfidenceSkip(source_lang, confidence, length) ==
    /\ confidence < CONFIDENCE_THRESHOLD
    /\ ~ is_target_lang_short(source_lang, length)

\* source_lang.startswith(LANG_A_CODE.lower().split("-")[0])
\*     or source_lang == LANG_A_CODE.lower()
IsLangA(source_lang) ==
    \/ StartsWith(source_lang, SplitHyphenFirst(Lower(LANG_A_CODE)))
    \/ source_lang = Lower(LANG_A_CODE)

\* elif source_lang == LANG_B_CODE.lower()
IsLangB(source_lang) == source_lang = Lower(LANG_B_CODE)

\* the branch handle_message takes for a detection
Route(source_lang, confidence, length) ==
    IF LowConfidenceSkip(source_lang, confidence, length) THEN "Suppress"
    ELSE IF IsLangA(source_lang) THEN "TranslateAtoB"
    ELSE IF IsLangB(source_lang) THEN "TranslateBtoA"
    ELSE "DualTranslate"

\* ------------------------------------------------------------------------
\* Whitelist Check
\* ------------------------------------------------------------------------
\* {name.lower().lstrip("@") for name in config.get("allowed_admin_usernames")}
NormalizeAdminNames(names) == {LStripAt(Lower(name)) : name \in names}

\* a mutant of is_chat_authorized: the username is compared without lower()
is_chat_authorized_case_sensitive(chat_id, username) ==
    IF ALLOWED_CHAT_IDS = {} /\ ALLOWED_ADMIN_USERNAMES = {} THEN TRUE
    ELSE IF chat_id \in ALLOWED_CHAT_IDS THEN TRUE
    ELSE IF Truthy(username) /\ username[1] \in ALLOWED_ADMIN_USERNAMES THEN TRUE
    ELSE FALSE

\* the value is_chat_authorized(chat_id, chat) returns; username is
\* getattr(chat, "username", None)
is_chat_authorized(chat_id, username) ==
    IF ALLOWED_CHAT_IDS = {} /\ ALLOWED_ADMIN_USERNAMES = {} THEN TRUE
    ELSE IF chat_id \in ALLOWED_CHAT_IDS THEN TRUE
    ELSE IF Truthy(username) /\ Lower(username[1]) \in ALLOWED_ADMIN_USERNAMES THEN TRUE
    ELSE FALSE

\* ------------------------------------------------------------------------
\* Statistics: a defaultdict(int) and its JSON file
\* ------------------------------------------------------------------------
StatKeys == {"total", "a_to_b", "b_to_a", "other_to_dual", "partial_dual", "failed"}
KeyOrder == <<"total", "a_to_b", "b_to_a", "other_to_dual", "partial_dual", "failed">>

\* defaultdict(int)
EmptyStats == [k \in {} |-> 0]

\* the value stats[key] reads
Get(stats, key) == IF key \in DOMAIN stats THEN stats[key] ELSE 0

\* stats[key] += 1
Incr(stats, key) ==
    [k \in DOMAIN stats \cup {key} |-> IF k = key THEN Get(stats, key) + 1 ELSE stats[k]]

\* json.dump(dict(stats)): the text of the file, a list of key/value members
JsonDump(stats) ==
    LET keys == SelectSeq(KeyOrder, LAMBDA k : k \in DOMAIN stats)
    IN  [i \in 1..Len(keys) |-> [key |-> keys[i], value |-> stats[keys[i]]]]

\* defaultdict(int, json.load(f))
JsonLoad(text) ==
    [k \in {text[i].key : i \in 1..Len(text)} |->
        (CHOOSE m \in {text[i] : i \in 1..Len(text)} : m.key = k).value]

\* The calendar dates of the model: the date the process starts on, and the
\* next one.
Dates == {0, 1}

\* the clock reading at which the date changes: the process starts one
\* minute before midnight
MIDNIGHT == 60

\* f"{datetime.now():%Y-%m-%d}" when the clock reads t
DateOf(t) == IF t < MIDNIGHT THEN 0 ELSE 1

FileAbsent  == [kind |-> "absent",  text |-> <<>>]
FileCorrupt == [kind |-> "corrupt", text |-> <<>>]
FileJson(text) == [kind |-> "json", text |-> text]

\* the disk when the process starts at clock reading 0: the stats file of
\* that date is absent or holds content, no file of a later date exists
StartupDisk(content) == [d \in Dates |-> IF d = DateOf(0) THEN content ELSE FileAbsent]

\* a mutant of load_daily_stats: whatever JSON the file starts with is used
load_daily_stats_lenient(file) ==
    IF file.kind \in {"json", "corrupt"} THEN JsonLoad(file.text) ELSE EmptyStats

\* load_daily_stats(): the file's counters, or a fresh defaultdict when the
\* file does not exist or cannot be read
load_daily_stats(file) ==
    IF file.kind = "json" THEN JsonLoad(file.text) ELSE EmptyStats

\* a mutant of save_daily_stats: the write is put off (batched)
save_daily_stats_batched(stats) == {disk}

\* save_daily_stats(stats): what the disk can hold afterwards. The write to
\* stats_file succeeds; or open() raises and the file is as before; or
\* open() has truncated the file and json.dump raises. The exception is
\* logged; the files of other dates are not touched.
save_daily_stats(stats) ==
    {[disk EXCEPT ![stats_file] = content] :
        content \in {FileJson(JsonDump(stats))}
                       \cup (IF write_faults THEN {disk[stats_file], FileCorrupt} ELSE {})}

\* ------------------------------------------------------------------------
\* Core Translation Functions
\* ------------------------------------------------------------------------
\* What the backend answers to translate_text: an exception, a response
\* without translations, an empty translated_text, or a translation.
TranslateResponses == {"exception", "no_translations", "empty_text", "text"}

\* the translation of the message into the language of a target
TranslatedText(target) == IF target = "a" THEN <<"t", "a">> ELSE <<"t", "b">>

\* what translate_text returns: translations[0].translated_text, or None
translate_text(response, target) ==
    CASE response = "exception"       -> None
      [] response = "no_translations" -> None
      [] response = "empty_text"      -> Some(<<>>)
      [] response = "text"            -> Some(TranslatedText(target))

\* What the backend answers to detect_language in the pipeline runs: an
\* exception (None) or a language code and a confidence.
ZH_CN == <<"z", "h", "-", "C", "N">>
ZH_TW == <<"z", "h", "_", "T", "W">>
ZH    == <<"z", "h">>
ZHA   == <<"z", "h", "a">>
VI    == <<"v", "i">>
VI_VN == <<"v", "i", "-", "V", "N">>
EN    == <<"e", "n">>
FI    == <<"f", "i">>
FIL   == <<"f", "i", "l">>

DetectResponse(language_code, confidence) ==
    Some([language_code |-> language_code, confidence |-> confidence])

PipelineDetections ==
    {None, DetectResponse(ZH_CN, 95), DetectResponse(VI, 95), DetectResponse(VI, 30),
     DetectResponse(EN, 95), DetectResponse(EN, 30)}

\* ------------------------------------------------------------------------
\* /stats Command Handler
\* ------------------------------------------------------------------------
\* the text stats_command replies with: the six counters of stats
StatsReport(stats) == [k \in StatKeys |-> Get(stats, k)]

\* if not user or user.username and
\*     user.username.lower().lstrip("@") not in ALLOWED_ADMIN_USERNAMES
\* ("and" binds tighter than "or"; user.username is None or a str)
stats_command_rejects(has_user, username) ==
    \/ ~ has_user
    \/ /\ Truthy(username)
       /\ LStripAt(Lower(username[1])) \notin ALLOWED_ADMIN_USERNAMES

\* what stats_command(update, context) replies with: nothing when the
\* condition above holds (without a user the log line reads user.id of None
\* and raises, with one the handler returns), the report otherwise
stats_command(has_user, username, stats) ==
    IF stats_command_rejects(has_user, username) THEN None
    ELSE Some(StatsReport(stats))

\* ------------------------------------------------------------------------
\* The updates the transport delivers to handle_message
\* ------------------------------------------------------------------------
T_BLANK == <<" ", " ">>
T_CMD   == <<"/", "s">>
T_SHORT == <<" ", "h", "i", " ">>
T_LONG  == <<"b", "o", "n", "j", "o", "u", "r">>
U_BOB   == <<"B", "o", "b">>
U_EVE   == <<"e", "v", "e">>

\* (msg.text, msg.caption)
Contents ==
    {<<None, None>>, <<Some(T_BLANK), None>>, <<Some(T_CMD), None>>,
     <<Some(T_SHORT), None>>, <<None, Some(T_LONG)>>}

\* (chat.id, chat.username)
ChatUsers == {<<1, None>>, <<2, Some(U_BOB)>>, <<2, Some(U_EVE)>>, <<2, None>>}

Updates ==
    {[has_message |-> FALSE, text |-> None, caption |-> None, chat_id |-> 1,
      username |-> None, from_bot |-> FALSE]}
    \cup
    {[has_message |-> TRUE, text |-> c[1], caption |-> c[2], chat_id |-> cu[1],
      username |-> cu[2], from_bot |-> fb] :
        c \in Contents, cu \in ChatUsers, fb \in BOOLEAN}

\* text_to_translate: the caption when there is one, otherwise the text
text_to_translate(u) == IF Truthy(u.caption) THEN u.caption ELSE u.text

\* original_text = text_to_translate.strip()
original_text(u) ==
    IF Truthy(text_to_translate(u)) THEN Strip(text_to_translate(u)[1]) ELSE <<>>

\* The return handle_message takes before the rate check, "" when it takes
\* none: no message, no text, blank text, a command, or an unauthorized chat.
EarlyReturn(u) ==
    IF ~ u.has_message THEN "no_message"
    ELSE IF ~ Truthy(text_to_translate(u)) THEN "no_text"
    ELSE IF original_text(u) = <<>> THEN "blank_text"
    ELSE IF StartsWith(original_text(u), <<"/">>) THEN "command"
    ELSE IF ~ is_chat_authorized(u.chat_id, u.username) THEN "unauthorized"
    ELSE ""

NoSuccess == "None"
NoRoute == "None"

\* ------------------------------------------------------------------------
\* Main Message Handling Logic: handle_message, one action per stretch of
\* code between two awaits
\* ------------------------------------------------------------------------
\* The coroutine returns: its frame, with every local, is gone.
Done(p, why) ==
    /\ pc' = [pc EXCEPT ![p] = "done"]
    /\ ended' = [ended EXCEPT ![p] = why]
    /\ text_len' = [text_len EXCEPT ![p] = 0]
    /\ route' = [route EXCEPT ![p] = NoRoute]
    /\ call_state' = [call_state EXCEPT ![p] = [t \in Targets |-> "not_issued"]]
    /\ result' = [result EXCEPT ![p] = [t \in Targets |-> None]]
    /\ reply_parts' = [reply_parts EXCEPT ![p] = <<>>]
    /\ success_type' = [success_type EXCEPT ![p] = NoSuccess]
    /\ completed' = [completed EXCEPT ![p] = <<>>]

\* a mutant of TimestampsAfterGate: the sender is tested before the rate check
TimestampsSenderFirst(u) ==
    IF u.from_bot THEN message_timestamps[u.chat_id] ELSE TimestampsAfterCheck(u.chat_id)

\* if is_rate_limited(chat_id) or user.id == context.bot.id (line 307): the
\* rate check is the first operand and runs whoever the sender is
TimestampsAfterGate(u) == TimestampsAfterCheck(u.chat_id)

\* a mutant of CanDispatch: an update is dispatched when the handlers of the
\* earlier updates have returned (concurrent_updates(False))
CanDispatchSequential(p) ==
    /\ pc[p] = "new"
    /\ \A q \in Procs : q < p => pc[q] = "done"

\* Application.builder().concurrent_updates(True): the updates are dispatched
\* in the order they arrive, each to a handler task of its own, without
\* waiting for the handlers of the earlier updates
CanDispatch(p) ==
    /\ pc[p] = "new"
    /\ \A q \in Procs : q < p => pc[q] # "new"

\* Lines 272-314: from the dispatch of the update to the await of the
\* detection call. The whitelist check, then the rate check, which runs
\* before the test of the sender (is_rate_limited(chat_id) or user.id == bot.id).
Receive(p) ==
    /\ CanDispatch(p)
    /\ \E u \in Updates :
         IF EarlyReturn(u) # ""
         THEN /\ Done(p, EarlyReturn(u))
              /\ UNCHANGED rate_vars
         ELSE /\ message_timestamps' =
                     [message_timestamps EXCEPT ![u.chat_id] = TimestampsAfterGate(u)]
              /\ admits' = [admits EXCEPT ![u.chat_id] =
                     IF is_rate_limited(u.chat_id) THEN @ ELSE Append(@, now)]
              /\ IF is_rate_limited(u.chat_id) THEN Done(p, "rate_limited")
                 ELSE IF u.from_bot THEN Done(p, "self_message")
                 ELSE /\ pc' = [pc EXCEPT ![p] = "detect"]
                      /\ text_len' = [text_len EXCEPT ![p] = Len(original_text(u))]
                      /\ UNCHANGED <<ended, route, call_state, result, reply_parts,
                                     success_type, completed>>
    /\ UNCHANGED <<now, config_vars, stats_vars, checks, route_vars, auth_vars, sent>>

\* a mutant of IssuedTargets: the single translations go to the wrong target
IssuedTargetsSwapped(decision) ==
    CASE decision = "TranslateAtoB" -> {"a"}
      [] decision = "TranslateBtoA" -> {"b"}
      [] decision = "DualTranslate" -> {"a", "b"}
      [] OTHER -> {}

\* the translation calls each branch of step 4 issues
IssuedTargets(decision) ==
    CASE decision = "TranslateAtoB" -> {"b"}
      [] decision = "TranslateBtoA" -> {"a"}
      [] decision = "DualTranslate" -> {"a", "b"}
      [] OTHER -> {}

\* a mutant of CountFailed: the failure is counted on the counters of the file
CountFailedOnFile(stats) == Incr(load_daily_stats(disk[stats_file]), "failed")

\* a mutant of CountFailed: a failure is counted in total as well
CountFailedAndTotal(stats) == Incr(Incr(stats, "failed"), "total")

\* stats["failed"] += 1 (lines 316 and 395)
CountFailed(stats) == Incr(stats, "failed")

\* a mutant of StatsAfterDetection: a detection below the confidence threshold
\* is counted as a failure
StatsAfterDetectionLowConfidence(stats, detection) ==
    IF detection = None THEN CountFailed(stats)
    ELSE IF detection[1].confidence < CONFIDENCE_THRESHOLD THEN CountFailed(stats)
    ELSE stats

\* the counters after lines 314-331: "if not detection" counts a failure, a
\* detection that is present changes no counter, suppressed or not
StatsAfterDetection(stats, detection) ==
    IF detection = None THEN CountFailed(stats) ELSE stats

\* Lines 314-363: the detection call returns; detection failure, the
\* confidence gate, and the translation calls of the branch taken. The
\* length of the text is read by no later decision and is dropped here.
DetectReturn(p) ==
    /\ pc[p] = "detect"
    /\ <<p, "detect">> \notin hung
    /\ \E response \in PipelineDetections :
         LET detection == detect_source_language(response) IN
         /\ daily_stats' = StatsAfterDetection(daily_stats, detection)
         /\ IF detection = None
            THEN /\ disk' \in save_daily_stats(daily_stats')
                 /\ Done(p, "detect_failed")
            ELSE LET decision == Route(detection[1].source_lang, detection[1].confidence,
                                       text_len[p]) IN
              /\ UNCHANGED disk
              /\ IF decision = "Suppress" THEN Done(p, "suppressed")
                 ELSE /\ route' = [route EXCEPT ![p] = decision]
                      /\ call_state' = [call_state EXCEPT ![p] =
                            [t \in Targets |-> IF t \in IssuedTargets(decision)
                                               THEN "in_flight" ELSE "not_issued"]]
                      /\ pc' = [pc EXCEPT ![p] = "translate"]
                      /\ text_len' = [text_len EXCEPT ![p] = 0]
                      /\ UNCHANGED <<ended, result, reply_parts, success_type,
                                     completed>>
    /\ UNCHANGED <<now, config_vars, rate_vars, checks, route_vars, auth_vars, sent>>

\* asyncio.to_thread(_translate): one translation call returns, in its own
\* thread; it touches nothing but its own result.
TranslateReturn(p, target) ==
    /\ call_state[p][target] = "in_flight"
    /\ <<p, target>> \notin hung
    /\ \E response \in TranslateResponses :
         result' = [result EXCEPT ![p][target] = translate_text(response, target)]
    /\ call_state' = [call_state EXCEPT ![p][target] = "returned"]
    /\ completed' = [completed EXCEPT ![p] = Append(@, target)]
    /\ UNCHANGED <<now, config_vars, rate_vars, stats_vars, checks, route_vars, auth_vars>>
    /\ UNCHANGED <<pc, text_len, route, reply_parts, success_type, sent, ended>>

Part(label, target, text) == [label |-> label, target |-> target, text |-> text]

\* a mutant of ReplyParts: the dual parts in the order the calls completed
ReplyPartsAsCompleted(p) ==
    CASE route[p] = "TranslateAtoB" ->
            IF Truthy(result[p]["b"]) THEN <<Part("A->B", "b", result[p]["b"][1])>> ELSE <<>>
      [] route[p] = "TranslateBtoA" ->
            IF Truthy(result[p]["a"]) THEN <<Part("B->A", "a", result[p]["a"][1])>> ELSE <<>>
      [] OTHER ->
            LET got == SelectSeq(completed[p], LAMBDA t : Truthy(result[p][t]))
            IN  [i \in 1..Len(got) |->
                    Part(IF got[i] = "a" THEN "X->A" ELSE "X->B", got[i], result[p][got[i]][1])]

\* reply_parts as lines 341-368 build it
ReplyParts(p) ==
    CASE route[p] = "TranslateAtoB" ->
            IF Truthy(result[p]["b"]) THEN <<Part("A->B", "b", result[p]["b"][1])>> ELSE <<>>
      [] route[p] = "TranslateBtoA" ->
            IF Truthy(result[p]["a"]) THEN <<Part("B->A", "a", result[p]["a"][1])>> ELSE <<>>
      [] OTHER ->
            (IF Truthy(result[p]["a"]) THEN <<Part("X->A", "a", result[p]["a"][1])>> ELSE <<>>)
            \o
            (IF Truthy(result[p]["b"]) THEN <<Part("X->B", "b", result[p]["b"][1])>> ELSE <<>>)

\* a mutant of SuccessType: a dual translation with one result counts as a
\* full one
SuccessTypeAnyDual(p) ==
    CASE route[p] = "TranslateAtoB" ->
            IF Truthy(result[p]["b"]) THEN "a_to_b" ELSE NoSuccess
      [] route[p] = "TranslateBtoA" ->
            IF Truthy(result[p]["a"]) THEN "b_to_a" ELSE NoSuccess
      [] OTHER ->
            IF Truthy(result[p]["a"]) \/ Truthy(result[p]["b"]) THEN "other_to_dual"
            ELSE NoSuccess

\* success_type as lines 341-375 set it
SuccessType(p) ==
    CASE route[p] = "TranslateAtoB" ->
            IF Truthy(result[p]["b"]) THEN "a_to_b" ELSE NoSuccess
      [] route[p] = "TranslateBtoA" ->
            IF Truthy(result[p]["a"]) THEN "b_to_a" ELSE NoSuccess
      [] OTHER ->
            IF Truthy(result[p]["a"]) /\ Truthy(result[p]["b"]) THEN "other_to_dual"
            ELSE IF Truthy(result[p]["a"]) \/ Truthy(result[p]["b"]) THEN "partial_dual"
            ELSE NoSuccess

\* a mutant of GatherDone: the coroutine resumes at the first call completed
GatherFirstCompleted(p) == \E t \in Targets : call_state[p][t] = "returned"

\* await translate_text(...) (lines 343, 352) or await asyncio.gather(task_a,
\* task_b) (line 361): the coroutine resumes when every call it issued has
\* returned
GatherDone(p) == \A t \in Targets : call_state[p][t] # "in_flight"

\* Lines 343-387 and 394-399: the awaited translation call, or the gather of
\* the two, hands its results to the coroutine; the reply is built and its
\* send awaited, or the failure is counted.
TranslateJoin(p) ==
    /\ pc[p] = "translate"
    /\ GatherDone(p)
    /\ IF ReplyParts(p) # <<>>
       THEN /\ reply_parts' = [reply_parts EXCEPT ![p] = ReplyParts(p)]
            /\ success_type' = [success_type EXCEPT ![p] = SuccessType(p)]
            /\ pc' = [pc EXCEPT ![p] = "reply"]
            /\ UNCHANGED <<ended, stats_vars, text_len, route, call_state, result,
                           completed>>
       ELSE /\ daily_stats' = CountFailed(daily_stats)
            /\ disk' \in save_daily_stats(daily_stats')
            /\ Done(p, "failed")
    /\ UNCHANGED <<now, config_vars, rate_vars, checks, route_vars, auth_vars, sent>>

\* Lines 381-388: msg.reply_text returns, the reply is delivered; the
\* coroutine goes on to await asyncio.sleep(REPLY_DELAY_SECONDS).
ReplySent(p) ==
    /\ pc[p] = "reply"
    /\ sent' = [sent EXCEPT ![p] = reply_parts[p]]
    /\ pc' = [pc EXCEPT ![p] = "sleep"]
    /\ UNCHANGED <<now, config_vars, rate_vars, stats_vars, checks, route_vars, auth_vars>>
    /\ UNCHANGED <<text_len, route, call_state, result, reply_parts, success_type,
                   ended, completed>>

\* a mutant of CountReply: only total is increased
CountReplyTotalOnly(stats, type) == Incr(stats, "total")

\* stats["total"] += 1; if success_type: stats[success_type] += 1
CountReply(stats, type) ==
    IF type # NoSuccess THEN Incr(Incr(stats, "total"), type) ELSE Incr(stats, "total")

\* Lines 390-399: the delay is over; the reply is counted and the counters
\* saved. stats is the object bot_data["daily_stats"] holds, so the closing
\* assignment to bot_data changes nothing.
SleepDone(p) ==
    /\ pc[p] = "sleep"
    /\ daily_stats' = CountReply(daily_stats, success_type[p])
    /\ disk' \in save_daily_stats(daily_stats')
    /\ Done(p, "counted")
    /\ UNCHANGED <<now, config_vars, rate_vars, checks, route_vars, auth_vars, sent>>

\* The clock advances.
Tick(d) ==
    /\ now + d <= MaxNow
    /\ now' = now + d
    /\ UNCHANGED <<config_vars, rate_vars, stats_vars, task_vars, checks, route_vars,
                   auth_vars>>

\* ------------------------------------------------------------------------
\* main(): the state after start-up, and the specification of the bot
\* ------------------------------------------------------------------------
\* the counters a run of an earlier hour of the day left in the file
PriorStats == Incr(Incr(EmptyStats, "total"), "a_to_b")

\* what the stats file of today can hold when the process starts
InitialFiles == {FileAbsent, FileJson(JsonDump(PriorStats))}

\* the seconds the clock advances by in one step
TickSteps == {60}

IdleTasks ==
    /\ pc = [p \in Procs |-> "new"]
    /\ text_len = [p \in Procs |-> 0]
    /\ route = [p \in Procs |-> NoRoute]
    /\ call_state = [p \in Procs |-> [t \in Targets |-> "not_issued"]]
    /\ result = [p \in Procs |-> [t \in Targets |-> None]]
    /\ reply_parts = [p \in Procs |-> <<>>]
    /\ success_type = [p \in Procs |-> NoSuccess]
    /\ sent = [p \in Procs |-> <<>>]
    /\ ended = [p \in Procs |-> ""]
    /\ completed = [p \in Procs |-> <<>>]

IdleRoute ==
    /\ route_in = [language_code |-> <<>>, confidence |-> 0, length |-> 0]
    /\ route_out = "idle"

IdleAuth ==
    /\ auth_in = [fn |-> "idle", chat_id |-> 0, has_user |-> FALSE, username |-> None]
    /\ auth_out = FALSE
    /\ stats_reply = None

Init ==
    /\ now = 0
    /\ message_timestamps = [c \in ChatIds |-> <<>>]
    /\ admits = [c \in ChatIds |-> <<>>]
    /\ MAX_MESSAGES_PER_MINUTE = 1
    /\ LANG_A_CODE = ZH_CN
    /\ LANG_B_CODE = VI
    /\ ALLOWED_CHAT_IDS = {1}
    /\ ALLOWED_ADMIN_USERNAMES = NormalizeAdminNames({<<"@", "B", "o", "b">>})
    /\ write_faults = FALSE
    /\ hung = {}
    /\ restarts = 0
    /\ stats_file = DateOf(now)
    /\ \E content \in InitialFiles : disk = StartupDisk(content)
    /\ daily_stats = load_daily_stats(disk[stats_file])
    /\ stats_at_start = daily_stats
    /\ IdleTasks
    /\ checks = <<>>
    /\ IdleRoute
    /\ IdleAuth

Next ==
    \/ \E p \in Procs : Receive(p)
    \/ \E p \in Procs : DetectReturn(p)
    \/ \E p \in Procs, t \in Targets : TranslateReturn(p, t)
    \/ \E p \in Procs : TranslateJoin(p)
    \/ \E p \in Procs : ReplySent(p)
    \/ \E p \in Procs : SleepDone(p)
    \/ \E d \in TickSteps : Tick(d)

Spec == Init /\ [][Next]_vars

\* ------------------------------------------------------------------------
\* SpecRate: is_rate_limited alone, called for any chat at any time
\* ------------------------------------------------------------------------
\* the seconds the clock advances by in one step of SpecRate
RateTicks == {29, 30}

\* the ceilings SpecRate is run with
RateCeilings == {1, 2}

\* one call of is_rate_limited(chat_id), recorded in checks
RateCall(chat_id) ==
    /\ Len(checks) < MaxChecks
    /\ message_timestamps' =
           [message_timestamps EXCEPT ![chat_id] = TimestampsAfterCheck(chat_id)]
    /\ admits' = [admits EXCEPT ![chat_id] =
           IF is_rate_limited(chat_id) THEN @ ELSE Append(@, now)]
    /\ checks' = Append(checks, [chat_id |-> chat_id, at |-> now,
                                 admitted |-> ~ is_rate_limited(chat_id)])
    /\ UNCHANGED <<now, config_vars, stats_vars, task_vars, route_vars, auth_vars>>

InitRate ==
    /\ now = 0
    /\ message_timestamps = [c \in ChatIds |-> <<>>]
    /\ admits = [c \in ChatIds |-> <<>>]
    /\ MAX_MESSAGES_PER_MINUTE \in RateCeilings
    /\ LANG_A_CODE = ZH_CN
    /\ LANG_B_CODE = VI
    /\ ALLOWED_CHAT_IDS = {}
    /\ ALLOWED_ADMIN_USERNAMES = {}
    /\ write_faults = FALSE
    /\ hung = {}
    /\ restarts = 0
    /\ stats_file = DateOf(now)
    /\ disk = StartupDisk(FileAbsent)
    /\ daily_stats = EmptyStats
    /\ stats_at_start = EmptyStats
    /\ IdleTasks
    /\ checks = <<>>
    /\ IdleRoute
    /\ IdleAuth

NextRate ==
    \/ \E c \in ChatIds : RateCall(c)
    \/ \E d \in RateTicks : Tick(d)

SpecRate == InitRate /\ [][NextRate]_vars

\* ------------------------------------------------------------------------
\* SpecRoute: steps 3 and 4 of handle_message applied to one detection, for
\* several language pairs
\* ------------------------------------------------------------------------
RoutePairs == {<<ZH_CN, VI>>, <<FI, EN>>, <<EN, ZH_CN>>}
RouteCodes == {ZH_CN, ZH_TW, ZH, ZHA, VI, VI_VN, EN, FI, FIL}
RouteConfidences == {30, 69, 70, 95}
RouteLengths == {2, 6, 7}

\* the decision handle_message takes for the backend's answer route_in
ApplyRoute ==
    /\ route_out = "idle"
    /\ LET detection == detect_source_language(
               DetectResponse(route_in.language_code, route_in.confidence))
       IN  route_out' = Route(detection[1].source_lang, detection[1].confidence,
                              route_in.length)
    /\ UNCHANGED <<now, config_vars, rate_vars, stats_vars, task_vars, checks, route_in,
                   auth_vars>>

InitRoute ==
    /\ now = 0
    /\ message_timestamps = [c \in ChatIds |-> <<>>]
    /\ admits = [c \in ChatIds |-> <<>>]
    /\ MAX_MESSAGES_PER_MINUTE = 1
    /\ \E pair \in RoutePairs : LANG_A_CODE = pair[1] /\ LANG_B_CODE = pair[2]
    /\ ALLOWED_CHAT_IDS = {}
    /\ ALLOWED_ADMIN_USERNAMES = {}
    /\ write_faults = FALSE
    /\ hung = {}
    /\ restarts = 0
    /\ stats_file = DateOf(now)
    /\ disk = StartupDisk(FileAbsent)
    /\ daily_stats = EmptyStats
    /\ stats_at_start = EmptyStats
    /\ IdleTasks
    /\ checks = <<>>
    /\ route_in \in [language_code : RouteCodes, confidence : RouteConfidences,
                     length : RouteLengths]
    /\ route_out = "idle"
    /\ IdleAuth

NextRoute == ApplyRoute

SpecRoute == InitRoute /\ [][NextRoute]_vars

\* ------------------------------------------------------------------------
\* SpecAuth: is_chat_authorized and stats_command applied to one requester,
\* for several whitelists
\* ------------------------------------------------------------------------
U_BOB_LOWER == <<"b", "o", "b">>
U_MAL       == <<"M", "a", "l">>
AT_BOB      == <<"@", "B", "o", "b">>

\* config["allowed_chat_ids"] and config["allowed_admin_usernames"] as the
\* operator can write them
AuthChatLists == {{}, {1}}
AuthNameLists == SUBSET {AT_BOB, U_EVE}

\* chat.id, and chat.username or user.username: absent, or a Telegram username
AuthChatIds == ChatIds
AuthUsernames == {None, Some(U_BOB), Some(U_BOB_LOWER), Some(U_EVE), Some(U_MAL)}

\* one call of is_chat_authorized(chat_id, chat)
AuthCall(chat_id, username) ==
    /\ auth_in' = [fn |-> "is_chat_authorized", chat_id |-> chat_id,
                   has_user |-> TRUE, username |-> username]
    /\ auth_out' = is_chat_authorized(chat_id, username)
    /\ stats_reply' = None
    /\ UNCHANGED <<now, config_vars, rate_vars, stats_vars, task_vars, checks, route_vars>>

\* one /stats command: update.effective_user is None or a user
StatsCommand(has_user, username) ==
    /\ auth_in' = [fn |-> "stats_command", chat_id |-> 0,
                   has_user |-> has_user, username |-> username]
    /\ auth_out' = FALSE
    /\ stats_reply' = stats_command(has_user, username, daily_stats)
    /\ UNCHANGED <<now, config_vars, rate_vars, stats_vars, task_vars, checks, route_vars>>

InitAuth ==
    /\ now = 0
    /\ message_timestamps = [c \in ChatIds |-> <<>>]
    /\ admits = [c \in ChatIds |-> <<>>]
    /\ MAX_MESSAGES_PER_MINUTE = 1
    /\ LANG_A_CODE = ZH_CN
    /\ LANG_B_CODE = VI
    /\ ALLOWED_CHAT_IDS \in AuthChatLists
    /\ \E names \in AuthNameLists : ALLOWED_ADMIN_USERNAMES = NormalizeAdminNames(names)
    /\ write_faults = FALSE
    /\ hung = {}
    /\ restarts = 0
    /\ stats_file = DateOf(now)
    /\ disk = StartupDisk(FileJson(JsonDump(PriorStats)))
    /\ daily_stats = load_daily_stats(disk[stats_file])
    /\ stats_at_start = daily_stats
    /\ IdleTasks
    /\ checks = <<>>
    /\ IdleRoute
    /\ IdleAuth

NextAuth ==
    \/ \E c \in AuthChatIds, u \in AuthUsernames : AuthCall(c, u)
    \/ \E u \in AuthUsernames : StatsCommand(TRUE, u)
    \/ StatsCommand(FALSE, None)

SpecAuth == InitAuth /\ [][NextAuth]_vars

\* ------------------------------------------------------------------------
\* SpecRestart: the bot, stopped between two pipeline steps and started again
\* ------------------------------------------------------------------------
\* The process is stopped and main() runs again: the module is imported anew
\* (stats_file is named by the date of the clock, message_timestamps is
\* empty), load_daily_stats() reads that file, and the coroutines that were
\* suspended are gone. The disk and the replies already delivered remain, and
\* the configuration is read from the same file.
Restart ==
    /\ restarts < MaxRestarts
    /\ restarts' = restarts + 1
    /\ stats_file' = DateOf(now)
    /\ daily_stats' = load_daily_stats(disk[DateOf(now)])
    /\ stats_at_start' = load_daily_stats(disk[DateOf(now)])
    /\ message_timestamps' = [c \in ChatIds |-> <<>>]
    /\ admits' = [c \in ChatIds |-> <<>>]
    /\ pc' = [p \in Procs |-> IF pc[p] = "new" THEN "new" ELSE "done"]
    /\ ended' = [p \in Procs |-> IF pc[p] \in {"new", "done"} THEN ended[p] ELSE "killed"]
    /\ text_len' = [p \in Procs |-> 0]
    /\ route' = [p \in Procs |-> NoRoute]
    /\ call_state' = [p \in Procs |-> [t \in Targets |-> "not_issued"]]
    /\ result' = [p \in Procs |-> [t \in Targets |-> None]]
    /\ reply_parts' = [p \in Procs |-> <<>>]
    /\ success_type' = [p \in Procs |-> NoSuccess]
    /\ completed' = [p \in Procs |-> <<>>]
    /\ UNCHANGED <<now, MAX_MESSAGES_PER_MINUTE, LANG_A_CODE, LANG_B_CODE, ALLOWED_CHAT_IDS,
                   ALLOWED_ADMIN_USERNAMES, write_faults, hung, disk, sent, checks,
                   route_vars, auth_vars>>

NextRestart ==
    \/ Next
    \/ Restart

SpecRestart == Init /\ [][NextRestart]_vars

\* ------------------------------------------------------------------------
\* SpecFaults: the bot and its restarts when the stats file can be damaged
\* at start-up and writes to it can fail
\* ------------------------------------------------------------------------
\* a stats file whose JSON text is followed by bytes that are no JSON
FileGarbled(text) == [kind |-> "corrupt", text |-> text]

\* what the stats file of today can hold when the process starts
FaultFiles == InitialFiles \cup {FileCorrupt, FileGarbled(JsonDump(PriorStats))}

InitFaults ==
    /\ now = 0
    /\ message_timestamps = [c \in ChatIds |-> <<>>]
    /\ admits = [c \in ChatIds |-> <<>>]
    /\ MAX_MESSAGES_PER_MINUTE = 1
    /\ LANG_A_CODE = ZH_CN
    /\ LANG_B_CODE = VI
    /\ ALLOWED_CHAT_IDS = {1}
    /\ ALLOWED_ADMIN_USERNAMES = NormalizeAdminNames({AT_BOB})
    /\ write_faults = TRUE
    /\ hung = {}
    /\ restarts = 0
    /\ stats_file = DateOf(now)
    /\ \E content \in FaultFiles : disk = StartupDisk(content)
    /\ daily_stats = load_daily_stats(disk[stats_file])
    /\ stats_at_start = daily_stats
    /\ IdleTasks
    /\ checks = <<>>
    /\ IdleRoute
    /\ IdleAuth

SpecFaults == InitFaults /\ [][NextRestart]_vars

\* ------------------------------------------------------------------------
\* SpecStall: the bot when one backend call never returns
\* ------------------------------------------------------------------------
\* the backend calls of an instance: its detection, its two translations
BackendCalls == {"detect"} \cup Targets

InitStall ==
    /\ now = 0
    /\ message_timestamps = [c \in ChatIds |-> <<>>]
    /\ admits = [c \in ChatIds |-> <<>>]
    /\ MAX_MESSAGES_PER_MINUTE = 1
    /\ LANG_A_CODE = ZH_CN
    /\ LANG_B_CODE = VI
    /\ ALLOWED_CHAT_IDS = {1}
    /\ ALLOWED_ADMIN_USERNAMES = NormalizeAdminNames({AT_BOB})
    /\ write_faults = FALSE
    /\ \E p \in Procs, c \in BackendCalls : hung = {<<p, c>>}
    /\ restarts = 0
    /\ stats_file = DateOf(now)
    /\ disk = StartupDisk(FileAbsent)
    /\ daily_stats = load_daily_stats(disk[stats_file])
    /\ stats_at_start = daily_stats
    /\ IdleTasks
    /\ checks = <<>>
    /\ IdleRoute
    /\ IdleAuth

\* The transport delivers every update; the event loop runs every coroutine
\* that is ready; a backend call that is not hung returns. The clock is under
\* no obligation.
Fairness ==
    /\ \A p \in Procs : WF_vars(Receive(p))
    /\ \A p \in Procs : WF_vars(DetectReturn(p))
    /\ \A p \in Procs, t \in Targets : WF_vars(TranslateReturn(p, t))
    /\ \A p \in Procs : WF_vars(TranslateJoin(p))
    /\ \A p \in Procs : WF_vars(ReplySent(p))
    /\ \A p \in Procs : WF_vars(SleepDone(p))

SpecStall == InitStall /\ [][Next]_vars /\ Fairness

\* ========================================================================
\* Properties
\* ========================================================================

\* ------------------------------------------------------------------------
\* C1 (SpecRate)
\* ------------------------------------------------------------------------
\* the calls of checks made for a chat in the window [w, w + 60)
ChecksIn(c, w) ==
    {i \in 1..Len(checks) :
        /\ checks[i].chat_id = c
        /\ w <= checks[i].at
        /\ checks[i].at < w + WINDOW_SECONDS}

AdmittedIn(c, w) == {i \in ChecksIn(c, w) : checks[i].admitted}

\* no call admitted for the chat before w is younger than 60 seconds at w
FreshAt(c, w) ==
    \A i \in 1..Len(checks) :
        (checks[i].chat_id = c /\ checks[i].admitted /\ checks[i].at < w)
            => w - checks[i].at >= WINDOW_SECONDS

\* the timestamps of the calls admitted for a chat, in call order
AdmitTimes(c) ==
    LET mine == SelectSeq(checks, LAMBDA r : r.chat_id = c /\ r.admitted)
    IN  [i \in 1..Len(mine) |-> mine[i].at]

\* the time of the last call made for a chat, -1 when there is none
LastCheckAt(c) ==
    LET mine == SelectSeq(checks, LAMBDA r : r.chat_id = c)
    IN  IF mine = <<>> THEN -1 ELSE mine[Len(mine)].at

\* C1 as stated: for every chat and every 60-second window, if more than the
\* ceiling of checks fall in the window then exactly ceiling of them are
\* admitted. Refuted: a window that opens while timestamps admitted shortly
\* before it are still in force admits fewer.
C1_ExactlyCeilingInAnyWindow ==
    \A c \in ChatIds : \A w \in 0..now :
        Cardinality(ChecksIn(c, w)) > MAX_MESSAGES_PER_MINUTE
            => Cardinality(AdmittedIn(c, w)) = MAX_MESSAGES_PER_MINUTE

\* C1 as amended: in every 60-second window at most ceiling checks of a chat
\* are admitted; in a window at whose start no admitted timestamp of the chat
\* is younger than 60 seconds, more than ceiling checks give exactly ceiling
\* admits; the stored list holds exactly the admitted timestamps that were
\* younger than 60 seconds at the chat's last check, so a rejected call
\* records nothing; and a call is admitted as soon as the oldest stored
\* timestamp is 60 seconds old.
C1_RateWindow ==
    \A c \in ChatIds :
        /\ \A w \in 0..now :
              /\ Cardinality(AdmittedIn(c, w)) <= MAX_MESSAGES_PER_MINUTE
              /\ (FreshAt(c, w) /\ Cardinality(ChecksIn(c, w)) > MAX_MESSAGES_PER_MINUTE)
                    => Cardinality(AdmittedIn(c, w)) = MAX_MESSAGES_PER_MINUTE
        /\ message_timestamps[c] =
              SelectSeq(AdmitTimes(c), LAMBDA t : LastCheckAt(c) - t < WINDOW_SECONDS)
        /\ (message_timestamps[c] # <<>>
                /\ now - Head(message_timestamps[c]) >= WINDOW_SECONDS)
              => ~ is_rate_limited(c)

\* C1 witness: a chat with a call admitted at t, a later call rejected inside
\* the window, and a call admitted exactly 60 seconds after t.
C1_Witness ==
    \E c \in ChatIds : \E i, j, k \in 1..Len(checks) :
        /\ i < j /\ j < k
        /\ checks[i].chat_id = c /\ checks[j].chat_id = c /\ checks[k].chat_id = c
        /\ checks[i].admitted /\ ~ checks[j].admitted /\ checks[k].admitted
        /\ checks[k].at = checks[i].at + WINDOW_SECONDS
        /\ Cardinality(ChecksIn(c, checks[i].at)) > MAX_MESSAGES_PER_MINUTE

\* ------------------------------------------------------------------------
\* C3, C4, C5 (SpecRoute)
\* ------------------------------------------------------------------------
\* the detected code the routing reads: the backend's code, normalized
DetectedCode == NormalizeCode(route_in.language_code)

\* the part of a code before its first hyphen
LeadingSubtag(code) == SplitHyphenFirst(code)

\* the langA match of the claims: equal in lower case, or equal leading subtags
MatchesLangAClaim ==
    \/ DetectedCode = Lower(LANG_A_CODE)
    \/ LeadingSubtag(DetectedCode) = LeadingSubtag(Lower(LANG_A_CODE))

\* bypass-eligible: a short message whose code is exactly langA or langB
BypassEligibleClaim ==
    /\ route_in.length <= SHORT_TEXT_BYPASS_LIMIT
    /\ (DetectedCode = Lower(LANG_A_CODE) \/ DetectedCode = Lower(LANG_B_CODE))

PassedGate == route_out \notin {"idle", "Suppress"}

\* C3 as stated: a detection that passes the confidence gate is routed
\* TranslateAtoB if and only if its code equals langA in lower case or has
\* langA's leading subtag. Refuted by the code: startswith also accepts a code
\* whose leading subtag merely begins with langA's ("fil" for "fi").
C3_AtoBIffSubtagMatch ==
    PassedGate => (route_out = "TranslateAtoB" <=> MatchesLangAClaim)

\* C4: a detected message is suppressed if and only if its confidence is below
\* the threshold and it is not bypass-eligible (short, and its code exactly
\* langA or langB).
C4_SuppressIff ==
    route_out # "idle" =>
        (route_out = "Suppress" <=>
            (route_in.confidence < CONFIDENCE_THRESHOLD /\ ~ BypassEligibleClaim))

\* C4 witness: a short, low-confidence message whose code only shares langA's
\* leading subtag has been suppressed.
C4_Witness ==
    /\ route_out = "Suppress"
    /\ route_in.length <= SHORT_TEXT_BYPASS_LIMIT
    /\ DetectedCode # Lower(LANG_A_CODE)
    /\ LeadingSubtag(DetectedCode) = LeadingSubtag(Lower(LANG_A_CODE))

\* C5 as stated: a detection that passes the gate and does not match langA is
\* routed TranslateBtoA if and only if its code equals langB exactly, and
\* DualTranslate otherwise. Refuted by the code through the langA test of C3:
\* a code that does not match langA but begins with langA's leading subtag is
\* routed TranslateAtoB, whether or not it equals langB.
C5_BtoAIffExactElseDual ==
    (PassedGate /\ ~ MatchesLangAClaim) =>
        /\ route_out = "TranslateBtoA" <=> DetectedCode = Lower(LANG_B_CODE)
        /\ DetectedCode # Lower(LANG_B_CODE) => route_out = "DualTranslate"

\* ------------------------------------------------------------------------
\* C2 (Spec)
\* ------------------------------------------------------------------------
\* the timestamps recorded for a chat in the 60 seconds that start with its
\* i-th recorded timestamp
AdmitsFrom(c, i) ==
    {j \in 1..Len(admits[c]) :
        /\ admits[c][i] <= admits[c][j]
        /\ admits[c][j] < admits[c][i] + WINDOW_SECONDS}

InFlight(p) == pc[p] \in {"detect", "translate", "reply", "sleep"}

\* C2: whatever the interleaving of the pipeline instances, the rate checks of
\* one chat never admit more than ceiling messages within 60 seconds: two
\* messages are never both admitted into the last free slot.
C2_AtomicRateCheck ==
    \A c \in ChatIds : \A i \in 1..Len(admits[c]) :
        Cardinality(AdmitsFrom(c, i)) <= MAX_MESSAGES_PER_MINUTE

\* C2 witness: one instance has been rejected by the rate check while the
\* instance that took the chat's last slot is still suspended.
C2_Witness ==
    \E p, q \in Procs :
        /\ p # q
        /\ InFlight(p)
        /\ ended[q] = "rate_limited"
        /\ \E c \in ChatIds : Len(message_timestamps[c]) = MAX_MESSAGES_PER_MINUTE

\* ------------------------------------------------------------------------
\* C6, C7 (Spec)
\* ------------------------------------------------------------------------
PartA == Part("X->A", "a", TranslatedText("a"))
PartB == Part("X->B", "b", TranslatedText("b"))

Dual(p) == route[p] = "DualTranslate"
Joined(p) == pc[p] \in {"reply", "sleep"}
JoinStep(p) == pc[p] = "translate" /\ pc'[p] # "translate"

\* C6: in DualTranslate with both calls successful, the reply built, sent and
\* counted is (langA part, langB part) with outcome other_to_dual, in whatever
\* order the two calls completed.
C6_DualBothInOrder ==
    /\ [](\A p \in Procs :
            (Dual(p) /\ Joined(p) /\ Truthy(result[p]["a"]) /\ Truthy(result[p]["b"]))
                => /\ reply_parts[p] = <<PartA, PartB>>
                   /\ success_type[p] = "other_to_dual"
                   /\ (pc[p] = "sleep" => sent[p] = <<PartA, PartB>>))
    /\ [][\A p \in Procs :
            (Dual(p) /\ Truthy(result[p]["a"]) /\ Truthy(result[p]["b"]))
                => /\ JoinStep(p) => pc'[p] = "reply"
                   /\ (pc[p] = "sleep" /\ pc'[p] = "done")
                        => Get(daily_stats', "other_to_dual")
                               = Get(daily_stats, "other_to_dual") + 1]_vars

\* C6 witness: the langB call completed before the langA call, both with a
\* translation, and the reply sent is (langA part, langB part).
C6_Witness ==
    \E p \in Procs :
        /\ Dual(p) /\ pc[p] = "sleep"
        /\ completed[p] = <<"b", "a">>
        /\ Truthy(result[p]["a"]) /\ Truthy(result[p]["b"])
        /\ sent[p] = <<PartA, PartB>>

ExactlyOne(p) == Truthy(result[p]["a"]) # Truthy(result[p]["b"])

\* C7: in DualTranslate the calls fail independently: the return of one call
\* leaves the other call and its result alone; with exactly one result the
\* reply is that one part and the outcome partial_dual; with no result the
\* instance fails with zero parts and no reply.
C7_DualIndependent ==
    /\ [](\A p \in Procs :
            (Dual(p) /\ Joined(p) /\ ExactlyOne(p))
                => /\ reply_parts[p] =
                        (IF Truthy(result[p]["a"]) THEN <<PartA>> ELSE <<PartB>>)
                   /\ success_type[p] = "partial_dual"
                   /\ (pc[p] = "sleep" => sent[p] = reply_parts[p]))
    /\ [][\A p \in Procs :
            /\ \A t, u \in Targets :
                  (t # u /\ call_state[p][t] = "in_flight" /\ call_state'[p][t] = "returned")
                     => /\ call_state'[p][u] = call_state[p][u]
                        /\ result'[p][u] = result[p][u]
            /\ (Dual(p) /\ JoinStep(p))
                  => IF Truthy(result[p]["a"]) \/ Truthy(result[p]["b"])
                     THEN pc'[p] = "reply"
                     ELSE /\ ended'[p] = "failed"
                          /\ reply_parts'[p] = <<>>
                          /\ sent'[p] = <<>>]_vars

\* C7 witness: the langA call failed first, the langB call still returned its
\* translation afterwards, and the reply sent holds the langB part alone.
C7_Witness ==
    \E p \in Procs :
        /\ Dual(p) /\ pc[p] = "sleep"
        /\ completed[p] = <<"a", "b">>
        /\ result[p]["a"] = None /\ Truthy(result[p]["b"])
        /\ sent[p] = <<PartB>>

\* ------------------------------------------------------------------------
\* C8, C9, C10 (Spec)
\* ------------------------------------------------------------------------
NamedCounters == {"a_to_b", "b_to_a", "other_to_dual", "partial_dual", "failed"}

\* the instances that were processed to an outcome
Processed == {p \in Procs : ended[p] \in {"detect_failed", "failed", "counted"}}

\* the outcome of a processed instance, read off the reply that was sent
OutcomeOf(p) ==
    IF ended[p] # "counted" THEN "failed"
    ELSE IF Len(sent[p]) = 2 THEN "other_to_dual"
    ELSE IF sent[p][1].label = "A->B" THEN "a_to_b"
    ELSE IF sent[p][1].label = "B->A" THEN "b_to_a"
    ELSE "partial_dual"

Grown(key) == Get(daily_stats, key) - Get(stats_at_start, key)

\* C8: at every point of every interleaving, each named counter has grown by
\* the number of processed instances with that outcome, total by the number
\* of processed instances that did not fail, and the five named counters
\* together by the number of processed instances.
C8_CountersMatchOutcomes ==
    /\ \A k \in NamedCounters :
          Grown(k) = Cardinality({p \in Processed : OutcomeOf(p) = k})
    /\ Grown("total") = Cardinality({p \in Processed : OutcomeOf(p) # "failed"})
    /\ Grown("a_to_b") + Grown("b_to_a") + Grown("other_to_dual")
           + Grown("partial_dual") + Grown("failed") = Cardinality(Processed)

\* C8 witness: every instance has been processed, one to a failure and one to
\* a full dual translation, on top of counters loaded from the file.
C8_Witness ==
    /\ Processed = Procs
    /\ stats_at_start # EmptyStats
    /\ \E p, q \in Procs : OutcomeOf(p) = "failed" /\ OutcomeOf(q) = "other_to_dual"

DropReasons ==
    {"no_message", "no_text", "blank_text", "command", "unauthorized",
     "rate_limited", "self_message", "suppressed"}

Returns(p) == ended[p] = "" /\ ended'[p] # ""

\* C9: an instance dropped for lack of text, by the whitelist, by the rate
\* check, as the bot's own message or for low confidence is done without a
\* reply, and neither its dispatch nor its return changes a counter, in
\* memory or in the file.
C9_DropsAreSilent ==
    /\ [](\A p \in Procs :
            ended[p] \in DropReasons => (pc[p] = "done" /\ sent[p] = <<>>))
    /\ [][\A p \in Procs :
            ((Returns(p) /\ ended'[p] \in DropReasons) \/ (pc[p] = "new" /\ pc'[p] # "new"))
                => /\ daily_stats' = daily_stats
                   /\ disk' = disk
                   /\ sent' = sent]_vars

\* C9 witness: one instance was suppressed for low confidence and another
\* dropped as the bot's own message.
C9_Witness ==
    \E p, q \in Procs : ended[p] = "suppressed" /\ ended[q] = "self_message"

\* C10: the return of an instance whose detection returned nothing, or whose
\* translation calls all returned nothing, sends no reply and increases the
\* failed counter by one and no other counter; a detection failure has issued
\* no translation call; and an instance whose calls all returned nothing does
\* end this way.
C10_FailureCountsFailedOnly ==
    /\ [](\A p \in Procs :
            ended[p] \in {"detect_failed", "failed"} => sent[p] = <<>>)
    /\ [][\A p \in Procs :
            /\ (Returns(p) /\ ended'[p] \in {"detect_failed", "failed"})
                  => /\ Get(daily_stats', "failed") = Get(daily_stats, "failed") + 1
                     /\ \A k \in StatKeys \ {"failed"} :
                           Get(daily_stats', k) = Get(daily_stats, k)
                     /\ sent' = sent
            /\ (Returns(p) /\ ended'[p] = "detect_failed")
                  => \A t \in Targets : call_state[p][t] = "not_issued"
            /\ (Returns(p) /\ ended'[p] = "failed")
                  => /\ \E t \in Targets : call_state[p][t] = "returned"
                     /\ \A t \in Targets : ~ Truthy(result[p][t])
            /\ (JoinStep(p) /\ \A t \in Targets : ~ Truthy(result[p][t]))
                  => ended'[p] = "failed"]_vars

\* C10 witness: one instance failed at detection, another after its
\* translation calls, and failed has grown by two while total has not grown.
C10_Witness ==
    /\ \E p, q \in Procs : ended[p] = "detect_failed" /\ ended[q] = "failed"
    /\ Grown("failed") = 2
    /\ Grown("total") = 0

\* ------------------------------------------------------------------------
\* C11, C12 (SpecAuth)
\* ------------------------------------------------------------------------
\* the normalized username of a requester is in the username whitelist
ListedName(username) ==
    /\ Truthy(username)
    /\ LStripAt(Lower(username[1])) \in ALLOWED_ADMIN_USERNAMES

\* C11: stats_command replies with the statistics report only to a requester
\* whose normalized username is in the username whitelist; every other
\* requester (no user, no username, a name not listed, an empty whitelist)
\* gets no report.
C11_StatsOnlyToListedAdmins ==
    auth_in.fn = "stats_command"
        => (stats_reply # None <=> (auth_in.has_user /\ ListedName(auth_in.username)))

\* what the claim says is_chat_authorized returns
AuthorizedClaim(chat_id, username) ==
    IF ALLOWED_CHAT_IDS = {} /\ ALLOWED_ADMIN_USERNAMES = {} THEN TRUE
    ELSE chat_id \in ALLOWED_CHAT_IDS \/ ListedName(username)

C13_RolloverNewCounters ==
    [][daily_stats' # daily_stats
          => /\ disk'[DateOf(now)] = FileJson(JsonDump(daily_stats'))
             /\ disk[DateOf(now)] = FileAbsent
                   => \A k \in StatKeys : Get(daily_stats, k) = 0]_vars

\* ------------------------------------------------------------------------
\* C14 (SpecRestart)
\* ------------------------------------------------------------------------
\* C14: every stats mutation is written in full to the stats file before the
\* pipeline yields: between any two pipeline steps the file holds the
\* counter values that are in memory, and a restart on the date the file is
\* named for loads exactly the values that were in memory before it (writes
\* succeed in SpecRestart).
C14_RestartReproducesCounters ==
    /\ [](\A k \in StatKeys :
            Get(load_daily_stats(disk[stats_file]), k) = Get(daily_stats, k))
    /\ [][(daily_stats' # daily_stats /\ restarts' = restarts)
            => disk'[stats_file] = FileJson(JsonDump(daily_stats'))]_vars
    /\ [][(restarts' # restarts /\ DateOf(now) = stats_file)
            => \A k \in StatKeys : Get(daily_stats', k) = Get(daily_stats, k)]_vars

\* C14 witness: the process was restarted on the date it had started on while
\* an instance was suspended, and loaded a failure counted before the restart.
C14_Witness ==
    /\ restarts = 1 /\ stats_file = DateOf(0) /\ DateOf(now) = DateOf(0)
    /\ Get(stats_at_start, "failed") = 1
    /\ \E p \in Procs : ended[p] = "killed"

\* ------------------------------------------------------------------------
\* C15 (SpecFaults)
\* ------------------------------------------------------------------------
\* the process has just started for the first time: no step was taken yet
JustStarted == restarts = 0 /\ now = 0 /\ \A p \in Procs : pc[p] = "new"

AllZero(stats) == \A k \in StatKeys : Get(stats, k) = 0

\* C15: when the stats file of the current date exists but is corrupted or
\* unreadable, start-up does not fail and load_daily_stats yields counters
\* that are all zero: at the first start, and at every restart, which stays
\* possible whatever the file holds.
C15_CorruptFileLoadsZeros ==
    /\ []((JustStarted /\ disk[stats_file].kind = "corrupt") => AllZero(daily_stats))
    /\ [](restarts < MaxRestarts => ENABLED Restart)
    /\ [][(restarts' # restarts /\ disk[DateOf(now)].kind = "corrupt")
            => /\ AllZero(daily_stats')
               /\ \A p \in Procs : pc'[p] \in {"new", "done"}]_vars

\* C15 witness: a write failed and left the stats file corrupted after a
\* failure had been counted, and the restarted process holds zeroed counters.
C15_Witness ==
    /\ restarts = 1
    /\ disk[stats_file].kind = "corrupt"
    /\ \E p \in Procs : ended[p] = "detect_failed"
    /\ AllZero(daily_stats)

\* ------------------------------------------------------------------------
\* C16 (Spec)
\* ------------------------------------------------------------------------
\* C16: in an instance routed DualTranslate the reply is built and emitted
\* only after both translation calls have returned, with a result or with
\* none; while one of the two is in flight the instance is not past the join
\* and no reply of it is delivered.
C16_ReplyAfterBothCalls ==
    /\ [](\A p \in Procs :
            (Dual(p) /\ pc[p] \in {"reply", "sleep"})
                => \A t \in Targets : call_state[p][t] = "returned")
    /\ [](\A p \in Procs :
            (Dual(p) /\ \E t \in Targets : call_state[p][t] = "in_flight")
                => (pc[p] = "translate" /\ sent[p] = <<>> /\ reply_parts[p] = <<>>))
    /\ [][\A p \in Procs :
            (Dual(p) /\ sent'[p] # sent[p])
                => \A t \in Targets : call_state[p][t] = "returned"]_vars

\* C16 witness: a dual instance whose langB call returned nothing and whose
\* langA call returned a translation has been replied to, both calls returned.
C16_Witness ==
    \E p \in Procs :
        /\ Dual(p) /\ pc[p] = "sleep" /\ sent[p] = <<PartA>>
        /\ result[p]["b"] = None
        /\ \A t \in Targets : call_state[p][t] = "returned"

\* ------------------------------------------------------------------------
\* C17 (SpecStall)
\* ------------------------------------------------------------------------
\* the instance is waiting for a backend call that never returns
Stalled(p) ==
    \/ pc[p] = "detect" /\ <<p, "detect">> \in hung
    \/ pc[p] = "translate"
         /\ \E t \in Targets : call_state[p][t] = "in_flight" /\ <<p, t>> \in hung

\* a step of the instance is possible
CanStep(p) ==
    \/ ENABLED Receive(p)
    \/ ENABLED DetectReturn(p)
    \/ \E t \in Targets : ENABLED TranslateReturn(p, t)
    \/ ENABLED TranslateJoin(p)
    \/ ENABLED ReplySent(p)
    \/ ENABLED SleepDone(p)

\* C17: a backend call that never returns stalls only its own instance. Every
\* instance whose backend calls all return eventually reaches Done, whatever
\* the other instances wait for; and an instance that is not done and not
\* itself waiting for a hung call is never blocked (nothing is held across a
\* backend call), but for an update waiting to be dispatched in its turn.
C17_StallIsLocal ==
    /\ \A p \in Procs :
          (\A c \in BackendCalls : <<p, c>> \notin hung) => <>(pc[p] = "done")
    /\ [](\A p \in Procs :
            (pc[p] \notin {"new", "done"} /\ ~ Stalled(p)) => CanStep(p))
    /\ [](\A p \in Procs :
            (pc[p] = "new" /\ \A q \in Procs : q < p => pc[q] # "new") => CanStep(p))

\* C17 witness: the first instance is stalled for ever in its detection call,
\* and the second one, admitted after it, was replied to and counted.
C17_Witness ==
    /\ Stalled(1) /\ pc[1] = "detect"
    /\ pc[2] = "done" /\ ended[2] = "counted" /\ sent[2] # <<>>
    /\ Get(daily_stats, "total") = 1

\* ------------------------------------------------------------------------
\* C18 (Spec)
\* ------------------------------------------------------------------------
\* the step issues the detection call of the instance
DetectIssued(p) == pc[p] # "detect" /\ pc'[p] = "detect"

\* the step issues the translation call of the instance to the target
TranslateIssued(p, t) == call_state[p][t] # "in_flight" /\ call_state'[p][t] = "in_flight"

\* the targets the claim names for each route
ClaimedTargets(r) ==
    IF r = "TranslateAtoB" THEN {"b"}
    ELSE IF r = "TranslateBtoA" THEN {"a"}
    ELSE IF r = "DualTranslate" THEN {"a", "b"}
    ELSE {}

\* the reasons for which a message is dropped before detection
BeforeDetection ==
    {"no_message", "no_text", "blank_text", "command", "unauthorized", "rate_limited",
     "self_message"}

\* C18: per message at most one detection call, and no retry. The detection
\* call is issued only by the dispatch of the update, and not at all when the
\* message is dropped before detection; translation calls are issued only in
\* the step that consumes the detection: none when detection fails or routing
\* suppresses, {langB} for TranslateAtoB, {langA} for TranslateBtoA, both for
\* DualTranslate; no call is issued again after it returned, with a result or
\* without, and an instance that is done issues nothing.
C18_CallsPerRoute ==
    [][\A p \in Procs :
          /\ DetectIssued(p) => (pc[p] = "new" /\ ended'[p] \notin BeforeDetection)
          /\ pc'[p] = "new" => pc[p] = "new"
          /\ (pc[p] = "new" /\ pc'[p] = "done")
                => /\ ended'[p] \in BeforeDetection
                   /\ \A t \in Targets : call_state'[p][t] = "not_issued"
          /\ \A t \in Targets :
                TranslateIssued(p, t) => (pc[p] = "detect" /\ pc'[p] = "translate")
          /\ (pc[p] = "detect" /\ pc'[p] # "detect")
                => /\ {t \in Targets : TranslateIssued(p, t)} = ClaimedTargets(route'[p])
                   /\ pc'[p] = "done" <=> ended'[p] \in {"detect_failed", "suppressed"}
                   /\ pc'[p] = "translate"
                         <=> route'[p] \in {"TranslateAtoB", "TranslateBtoA", "DualTranslate"}
          /\ pc[p] = "translate" => route'[p] \in {route[p], NoRoute}
          /\ pc[p] = "done"
                => (pc'[p] = "done" /\ \A t \in Targets : ~ TranslateIssued(p, t))]_vars

\* C18 witness: a TranslateAtoB instance whose only call, to langB, returned
\* nothing and was not issued again, and an instance whose detection failed.
C18_Witness ==
    \E p, q \in Procs :
        /\ route[p] = "TranslateAtoB" /\ pc[p] = "translate"
        /\ call_state[p] = [a |-> "not_issued", b |-> "returned"]
        /\ result[p]["b"] = None
        /\ ended[q] = "detect_failed"

\* ------------------------------------------------------------------------
\* C19 (SpecFaults)
\* ------------------------------------------------------------------------
\* the step is the one in which the instance counts its outcome and returns
Counts(p) ==
    /\ pc[p] # "done" /\ pc'[p] = "done" /\ restarts' = restarts
    /\ ended'[p] \in {"detect_failed", "failed", "counted"}

\* the write of the step failed: the file does not hold the new counters
WriteFailed == disk'[stats_file] # FileJson(JsonDump(daily_stats'))

\* the counters the claim expects after the instance has counted, from the
\* counters in memory before
CountedOnMemory(p, k) ==
    Get(daily_stats, k)
      + (IF ended'[p] \in {"detect_failed", "failed"} /\ k = "failed" THEN 1 ELSE 0)
      + (IF ended'[p] = "counted" /\ k \in {"total", success_type[p]} THEN 1 ELSE 0)

\* C19: a failed write of the stats file is not fatal and does not undo the
\* increment. In every counting step, the write failed or not, the instance
\* reaches Done and the counters in memory are those that were in memory
\* before plus the increment, whatever the file held; a failed write leaves
\* the file as it was or corrupted, and the counters change in no other step
\* of a run.
C19_WriteFailureKeepsCounting ==
    [][/\ \A p \in Procs :
             Counts(p) => \A k \in StatKeys : Get(daily_stats', k) = CountedOnMemory(p, k)
       /\ (daily_stats' # daily_stats /\ restarts' = restarts)
             => /\ \E p \in Procs : Counts(p)
                /\ WriteFailed => disk'[stats_file] \in {disk[stats_file], FileCorrupt}
       /\ (restarts' = restarts /\ \A p \in Procs : ~ Counts(p))
             => (daily_stats' = daily_stats /\ disk' = disk)]_vars

\* C19 witness: the write after a detection failure left no file, the write
\* after a later counted reply failed too, and memory holds both increments.
C19_Witness ==
    /\ restarts = 0 /\ AllZero(stats_at_start)
    /\ ended[1] = "detect_failed" /\ ended[2] = "counted"
    /\ disk[stats_file] = FileAbsent
    /\ Get(daily_stats, "failed") = 1 /\ Get(daily_stats, "total") = 1

\* ------------------------------------------------------------------------
\* C20 (Spec)
\* ------------------------------------------------------------------------
\* the step is the dispatch of the update of the instance
Dispatched(p) == pc[p] = "new" /\ pc'[p] # "new"

\* the reasons for which a message is dropped before the rate check
BeforeRateCheck == {"no_message", "no_text", "blank_text", "command", "unauthorized"}

\* the timestamps of a list that are younger than the window
Young(timestamps) == SelectSeq(timestamps, LAMBDA t : now - t < WINDOW_SECONDS)

\* C20: a recorded timestamp is removed only by the 60-second pruning of a
\* rate check, never because of what happens later to its message. A rate
\* window changes only in the dispatch of an update that reaches the rate
\* check, and then to its young timestamps, plus the clock when the check
\* admits; every admitted message takes its slot, the bot's own included;
\* text-less and unauthorized messages change no window; and the steps after
\* dispatch (detection failure, suppression, translation failure, reply and
\* count) change none.
C20_SlotKeptWhateverFollows ==
    [][/\ \A c \in ChatIds :
             message_timestamps'[c] # message_timestamps[c]
                => /\ \E p \in Procs : Dispatched(p) /\ ended'[p] \notin BeforeRateCheck
                   /\ message_timestamps'[c]
                         \in {Young(message_timestamps[c]),
                              Append(Young(message_timestamps[c]), now)}
       /\ \A p \in Procs :
             (Dispatched(p) /\ ended'[p] \notin BeforeRateCheck \cup {"rate_limited"})
                => \E c \in ChatIds :
                      message_timestamps'[c] = Append(Young(message_timestamps[c]), now)
       /\ \A p \in Procs :
             (Dispatched(p) /\ ended'[p] \in BeforeRateCheck)
                => message_timestamps' = message_timestamps
       /\ (\A p \in Procs : ~ Dispatched(p)) => message_timestamps' = message_timestamps]_vars

\* C20 witness: the first message was the bot's own and was dropped after the
\* rate check; its timestamp is still in the window of chat 1, and the second
\* message, arriving in the same second, was rate limited by it.
C20_Witness ==
    /\ ended[1] = "self_message" /\ ended[2] = "rate_limited"
    /\ message_timestamps[1] = <<0>>
    /\ now = 0

\* ------------------------------------------------------------------------
\* C21 (Spec)
\* ------------------------------------------------------------------------
\* C21: starting from zeroed counters, in every state between two pipeline
\* steps, whatever the other instances are suspended in, total equals
\* a_to_b + b_to_a + other_to_dual + partial_dual; and no step decreases a
\* counter.
C21_TotalIsSumAndMonotone ==
    /\ [](AllZero(stats_at_start)
            => Get(daily_stats, "total")
                 = Get(daily_stats, "a_to_b") + Get(daily_stats, "b_to_a")
                   + Get(daily_stats, "other_to_dual") + Get(daily_stats, "partial_dual"))
    /\ [][\A k \in StatKeys : Get(daily_stats', k) >= Get(daily_stats, k)]_vars

\* C21 witness: from zeroed counters one partial dual reply has been counted
\* while another instance is suspended in a translation call.
C21_Witness ==
    /\ AllZero(stats_at_start)
    /\ Get(daily_stats, "total") = 1 /\ Get(daily_stats, "partial_dual") = 1
    /\ \E q \in Procs, t \in Targets : pc[q] = "translate" /\ call_state[q][t] = "in_flight"
====
